---- MODULE Spec2Model ----
(***************************************************************************)
(* Model of twitch-watcher (src/src/main.rs): the token cache, the         *)
(* TwitchClient that keeps an OAuth token, and main's polling loop.         *)
(* Time is counted in whole seconds.  Calls are instantaneous; time passes  *)
(* in main's sleep, which lasts exactly its 10 seconds.                     *)
(***************************************************************************)
EXTENDS Integers, Sequences, FiniteSets, TLC

\* ---------------------------------------------------------------- bounds
MaxTime == 10        \* the clock stops the run after this many seconds
ShortExpiresIn == 3  \* a lifetime that ends more than the margin before a sleep does
MaxExpiresIn == 8    \* a lifetime that ends within the margin of the end of a sleep
MaxPast == 1         \* how far in the past a cached token may have expired
MaxClients == 2      \* distinct client identifiers
MaxUsers == 2        \* user ids the users endpoint may return
MaxCount == 2        \* largest viewer count
MaxRecords == 1      \* longest streams response

\* ------------------------------------------------------ program constants
MarginSecs == 5      \* Duration::seconds(5) in ensure_token
SleepSecs == 10      \* Duration::seconds(10) in main

\* ------------------------------------------------------------ Option<T>
None == <<>>
Some(x) == <<x>>

\* ------------------------------------------------------------- TwitchAuth
TwitchAuth(cid, tok, exp) ==
    [client_id |-> cid, access_token |-> tok, expires_at |-> exp]

ClientIds == 1..MaxClients
\* The bearer token the identity endpoint issues to a client identifier.
AccessTokenFor(c) == 10 + c

AccessTokens == {AccessTokenFor(c) : c \in ClientIds}

\* Lifetimes (expires_in) the identity endpoint reports.
ExpiresIns == {ShortExpiresIn, MaxExpiresIn}

\* ------------------------------------------- serde_json of a TwitchAuth
\* A DateTime<Utc> is written as an RFC 3339 string: calendar fields, here
\* the minute and the second within it.
\* FormatTime with the seconds cut off.
FormatTimeMinutes(t) == <<t \div 60, 0>>

FormatTime(t) == <<t \div 60, t % 60>>

ParseTime(s) == s[1] * 60 + s[2]

\* serde_json::to_vec(&auth): the object's fields in declaration order.
to_vec(a) ==
    << <<"client_id", a.client_id>>,
       <<"access_token", a.access_token>>,
       <<"expires_at", FormatTime(a.expires_at)>> >>

HasField(c, k) == \E i \in DOMAIN c : c[i][1] = k

Field(c, k) == c[CHOOSE i \in DOMAIN c : c[i][1] = k][2]

\* serde_json::from_str::<TwitchAuth>(&content): None stands for Err.
from_str(c) ==
    IF HasField(c, "client_id") /\ HasField(c, "access_token")
          /\ HasField(c, "expires_at")
    THEN Some(TwitchAuth(Field(c, "client_id"), Field(c, "access_token"),
                         ParseTime(Field(c, "expires_at"))))
    ELSE None

\* ------------------------------------------------------- the cache file
NoFile == [kind |-> "missing", content |-> <<>>]
Unreadable == [kind |-> "unreadable", content |-> <<>>]
FileOf(c) == [kind |-> "ok", content |-> c]

\* std::fs::read_to_string
read_to_string(f) == IF f.kind = "ok" THEN Some(f.content) ELSE None

\* get_cache_token_path: Ok exactly when ProjectDirs::from finds a home.
get_cache_token_path(pOK) == pOK

\* get_cached_token that still accepts a token at the second it expires.
get_cached_token_strict(pOK, f, t) ==
    IF ~get_cache_token_path(pOK)
    THEN [ok |-> FALSE, val |-> None]
    ELSE LET content == read_to_string(f) IN
         IF content = None
         THEN [ok |-> TRUE, val |-> None]
         ELSE LET parsed == from_str(content[1]) IN
              IF parsed = None
              THEN [ok |-> TRUE, val |-> None]
              ELSE IF t > parsed[1].expires_at
                   THEN [ok |-> TRUE, val |-> None]
                   ELSE [ok |-> TRUE, val |-> parsed]

\* get_cached_token: ok = FALSE is Err, val is the Option<TwitchAuth>.
get_cached_token(pOK, f, t) ==
    IF ~get_cache_token_path(pOK)
    THEN [ok |-> FALSE, val |-> None]
    ELSE LET content == read_to_string(f) IN
         IF content = None
         THEN [ok |-> TRUE, val |-> None]
         ELSE LET parsed == from_str(content[1]) IN
              IF parsed = None
              THEN [ok |-> TRUE, val |-> None]
              ELSE IF t >= parsed[1].expires_at
                   THEN [ok |-> TRUE, val |-> None]
                   ELSE [ok |-> TRUE, val |-> parsed]

\* Outcomes of create_dir_all + fs::write: done, refused before the file is
\* touched, or failed after the file was truncated.
WriteOutcomes == {"ok", "denied", "partial"}

\* cache_token
cache_token(pOK, f, a, w) ==
    IF ~get_cache_token_path(pOK)
    THEN [ok |-> FALSE, file |-> f, wrote |-> FALSE]
    ELSE CASE w = "ok" -> [ok |-> TRUE, file |-> FileOf(to_vec(a)), wrote |-> TRUE]
           [] w = "denied" -> [ok |-> FALSE, file |-> f, wrote |-> FALSE]
           [] OTHER -> [ok |-> FALSE, file |-> FileOf(<<>>), wrote |-> TRUE]

\* ------------------------------------------------- the identity endpoint
TokenResponse(tok, e) == [access_token |-> tok, expires_in |-> e]

\* What req.send()?.json()? can yield: None is a transport, status or
\* decode failure.
TokenResponses ==
    {None} \cup {Some(TokenResponse(tok, e)) : tok \in AccessTokens, e \in ExpiresIns}

\* The responses to a request made with the client identifier cid.
TokenResponsesFor(cid) ==
    {r \in TokenResponses : r = None \/ r[1].access_token = AccessTokenFor(cid)}

\* get_fresh_token
get_fresh_token(cid, resp, t) ==
    IF resp = None
    THEN [ok |-> FALSE, val |-> None]
    ELSE [ok |-> TRUE,
          val |-> Some(TwitchAuth(cid, resp[1].access_token, t + resp[1].expires_in))]

\* get_token that returns the fresh token without caching it.
get_token_nostore(pOK, f, cid, t, resp, w) ==
    LET c == get_cached_token(pOK, f, t) IN
    IF ~c.ok
    THEN [ok |-> FALSE, auth |-> None, file |-> f, idReqs |-> 0, fetched |-> FALSE,
          stores |-> 0, wrote |-> FALSE]
    ELSE IF c.val # None
    THEN [ok |-> TRUE, auth |-> c.val, file |-> f, idReqs |-> 0, fetched |-> FALSE,
          stores |-> 0, wrote |-> FALSE]
    ELSE LET fr == get_fresh_token(cid, resp, t) IN
         [ok |-> fr.ok, auth |-> fr.val, file |-> f, idReqs |-> 1, fetched |-> fr.ok,
          stores |-> 0, wrote |-> FALSE]

\* get_token that asks for a fresh token even when the cache holds one.
get_token_refetch(pOK, f, cid, t, resp, w) ==
    LET c == get_cached_token(pOK, f, t) IN
    IF ~c.ok
    THEN [ok |-> FALSE, auth |-> None, file |-> f, idReqs |-> 0, fetched |-> FALSE,
          stores |-> 0, wrote |-> FALSE]
    ELSE LET fr == get_fresh_token(cid, resp, t) IN
         IF ~fr.ok
         THEN [ok |-> FALSE, auth |-> None, file |-> f, idReqs |-> 1, fetched |-> FALSE,
               stores |-> 0, wrote |-> FALSE]
         ELSE LET s == cache_token(pOK, f, fr.val[1], w) IN
              [ok |-> s.ok, auth |-> IF s.ok THEN fr.val ELSE None,
               file |-> s.file, idReqs |-> 1, fetched |-> TRUE,
               stores |-> 1, wrote |-> s.wrote]

\* get_token: the cached token, or a fresh one that is then cached.
get_token(pOK, f, cid, t, resp, w) ==
    LET c == get_cached_token(pOK, f, t) IN
    IF ~c.ok
    THEN [ok |-> FALSE, auth |-> None, file |-> f, idReqs |-> 0, fetched |-> FALSE,
          stores |-> 0, wrote |-> FALSE]
    ELSE IF c.val # None
    THEN [ok |-> TRUE, auth |-> c.val, file |-> f, idReqs |-> 0, fetched |-> FALSE,
          stores |-> 0, wrote |-> FALSE]
    ELSE LET fr == get_fresh_token(cid, resp, t) IN
         IF ~fr.ok
         THEN [ok |-> FALSE, auth |-> None, file |-> f, idReqs |-> 1, fetched |-> FALSE,
               stores |-> 0, wrote |-> FALSE]
         ELSE LET s == cache_token(pOK, f, fr.val[1], w) IN
              [ok |-> s.ok, auth |-> IF s.ok THEN fr.val ELSE None,
               file |-> s.file, idReqs |-> 1, fetched |-> TRUE,
               stores |-> 1, wrote |-> s.wrote]

\* A comparison that asks for a new token when the held one expires within
\* the margin, and keeps a token that is still good.
NeedsRefreshSoon(a, t) == a.expires_at <= t + MarginSecs

\* The comparison of ensure_token.
NeedsRefresh(a, t) == a.expires_at > t - MarginSecs

\* ensure_token that keeps the fresh token in memory only.
ensure_token_nostore(a, pOK, f, cid, t, resp, w) ==
    IF NeedsRefresh(a, t)
    THEN LET fr == get_fresh_token(cid, resp, t) IN
         IF ~fr.ok
         THEN [ok |-> FALSE, auth |-> a, file |-> f, idReqs |-> 1, fetched |-> FALSE,
               stores |-> 0, wrote |-> FALSE]
         ELSE [ok |-> TRUE, auth |-> fr.val[1], file |-> f,
               idReqs |-> 1, fetched |-> TRUE, stores |-> 0, wrote |-> FALSE]
    ELSE [ok |-> TRUE, auth |-> a, file |-> f, idReqs |-> 0, fetched |-> FALSE,
          stores |-> 0, wrote |-> FALSE]

\* ensure_token on self.auth = a; self.auth is assigned before cache_token.
ensure_token(a, pOK, f, cid, t, resp, w) ==
    IF NeedsRefresh(a, t)
    THEN LET fr == get_fresh_token(cid, resp, t) IN
         IF ~fr.ok
         THEN [ok |-> FALSE, auth |-> a, file |-> f, idReqs |-> 1, fetched |-> FALSE,
               stores |-> 0, wrote |-> FALSE]
         ELSE LET s == cache_token(pOK, f, fr.val[1], w) IN
              [ok |-> s.ok, auth |-> fr.val[1], file |-> s.file,
               idReqs |-> 1, fetched |-> TRUE, stores |-> 1, wrote |-> s.wrote]
    ELSE [ok |-> TRUE, auth |-> a, file |-> f, idReqs |-> 0, fetched |-> FALSE,
          stores |-> 0, wrote |-> FALSE]

\* What a call of ensure_token can meet, as pairs <<resp, w>>: a response
\* of the identity endpoint only when line 77 makes the request, and an
\* outcome of the write only when a token came back to be written.
TokenInputs(a, cid, t) ==
    IF NeedsRefresh(a, t)
    THEN {<<None, "ok">>} \cup ((TokenResponsesFor(cid) \ {None}) \X WriteOutcomes)
    ELSE {<<None, "ok">>}

\* ------------------------------------------------------------ API client
UserIds == 1..MaxUsers
\* Viewer counts: none, one, and several (each has its own phrase).
Counts == {0, 1, MaxCount}

\* The display name the platform holds for a user id.
DisplayNameOf(id) == 100 + id

UserResponseData(id) == [id |-> id, display_name |-> DisplayNameOf(id)]

StreamResponseData(uid, n) == [user_id |-> uid, viewer_count |-> n]

SeqsUpTo(S, n) == UNION {[1..k -> S] : k \in 0..n}

\* Bodies of the users endpoint: None is a transport or decode failure,
\* otherwise one record per resolved login, no user twice.
UsersResponses ==
    {None} \cup
    {Some(d) : d \in {q \in SeqsUpTo({UserResponseData(i) : i \in UserIds}, MaxUsers) :
                        \A i, j \in DOMAIN q : i # j => q[i].id # q[j].id}}

\* Bodies of the streams endpoint.
StreamsResponses ==
    {None} \cup
    {Some(d) : d \in SeqsUpTo({StreamResponseData(u, n) : u \in UserIds, n \in Counts},
                              MaxRecords)}

\* The answers an endpoint can give to a call: ensure_token()? returns
\* before the request is built when it fails, and then there is none.
Answers(e, all) == IF e.ok THEN all ELSE {None}

\* get_users: ensure_token, then one request to helix/users.
get_users(a, pOK, f, cid, t, resp, w, api) ==
    LET e == ensure_token(a, pOK, f, cid, t, resp, w) IN
    IF ~e.ok
    THEN [ok |-> FALSE, token |-> e, apiReq |-> FALSE, data |-> <<>>]
    ELSE [ok |-> api # None, token |-> e, apiReq |-> TRUE,
          data |-> IF api # None THEN api[1] ELSE <<>>]

\* get_streams_data: ensure_token, then one request to helix/streams.
get_streams_data(a, pOK, f, cid, t, resp, w, api) ==
    LET e == ensure_token(a, pOK, f, cid, t, resp, w) IN
    IF ~e.ok
    THEN [ok |-> FALSE, token |-> e, apiReq |-> FALSE, data |-> <<>>]
    ELSE [ok |-> api # None, token |-> e, apiReq |-> TRUE,
          data |-> IF api # None THEN api[1] ELSE <<>>]

\* ------------------------------------------------------------------ main
\* users.iter().map(|u| (u.id.clone(), u)).collect::<BTreeMap>()
UserMapOf(us) ==
    [k \in {us[i].id : i \in DOMAIN us} |->
        us[CHOOSE i \in DOMAIN us :
              us[i].id = k /\ \A j \in DOMAIN us : us[j].id = k => j <= i]]

\* data.iter().map(|d| (d.user_id.clone(), d.viewer_count)).collect::<BTreeMap>()
CountsOf(data) ==
    [k \in {data[i].user_id : i \in DOMAIN data} |->
        data[CHOOSE i \in DOMAIN data :
                data[i].user_id = k /\ \A j \in DOMAIN data : data[j].user_id = k => j <= i]
            .viewer_count]

\* map.get(key).unwrap_or(&0)
GetOr0(m, k) == IF k \in DOMAIN m THEN m[k] ELSE 0

\* The i-th key of a map iterated from the largest key down.
KeyAtDesc(m, i) == CHOOSE k \in DOMAIN m : Cardinality({j \in DOMAIN m : j > k}) = i - 1

\* The i-th key of a BTreeMap in iteration order (ascending).
KeyAt(m, i) == CHOOSE k \in DOMAIN m : Cardinality({j \in DOMAIN m : j < k}) = i - 1

\* A line of init_msg that puts the noun in the plural for several viewers.
InitLinePlural(display_name, count) ==
    IF count = 0
    THEN ToString(display_name) \o " (no viewer)"
    ELSE IF count = 1
    THEN ToString(display_name) \o " (1 viewer)"
    ELSE ToString(display_name) \o " (" \o ToString(count) \o " viewers)"

\* One line of init_msg: the three format! calls.
InitLine(display_name, count) ==
    IF count = 0
    THEN ToString(display_name) \o " (no viewer)"
    ELSE IF count = 1
    THEN ToString(display_name) \o " (1 viewer)"
    ELSE ToString(display_name) \o " (" \o ToString(count) \o " viewer)"

\* init_msg before .join("\n"): one line per element of users, in the order
\* of users.
init_msg(us, counts) ==
    [i \in DOMAIN us |-> InitLine(us[i].display_name, GetOr0(counts, us[i].id))]

\* The test of the notification loop, reporting only a count that rose.
ShouldNotifyRise(prev_count, current_count) == current_count > prev_count

\* The test of the notification loop: prev_count != current_count.
ShouldNotify(prev_count, current_count) == prev_count # current_count

\* A main that ends on a failed TwitchClient::new only, and carries on from
\* any later Err.
TrySwallow(ok, next) == IF ok \/ next # "get_users" THEN next ELSE "error"

\* A main that carries on when a notification cannot be shown.
TryIgnoreSink(ok, next) == IF ok \/ next \in {"loop_fetch", "notify"} THEN next ELSE "error"

\* The ? operator of main: an Err ends the process.
Try(ok, next) == IF ok THEN next ELSE "error"

\* What the environment supplies: the two variables, or one of them missing.
\* The configured client identifier is the last of ClientIds; the others are
\* identifiers an earlier run may have been configured with.
Environments ==
    {[client_id |-> Some(MaxClients), client_secret |-> TRUE],
     [client_id |-> None, client_secret |-> TRUE],
     [client_id |-> Some(MaxClients), client_secret |-> FALSE]}

\* What the cache file may hold when the process starts.
CachedExpiries == {0 - MaxPast, 0} \cup ExpiresIns

InitialFiles ==
    {NoFile, Unreadable, FileOf(<<>>), FileOf(<< <<"client_id", 1>>, <<"access_token", 11>> >>)}
    \cup {FileOf(to_vec(TwitchAuth(c, AccessTokenFor(c), e))) :
             c \in ClientIds, e \in CachedExpiries}

VARIABLES
    now,                    \* Utc::now(), in seconds
    env,                    \* TWITCH_CLIENT_ID and TWITCH_CLIENT_SECRET
    pathOK,                 \* ProjectDirs::from finds a home directory
    file,                   \* cached_token.json
    auth,                   \* twitch_client.auth, None before new() returns
    pc,                     \* where main is
    users,                  \* main's users
    viewer_counts,          \* main's viewer_counts
    current_viewer_counts,  \* main's current_viewer_counts
    idx,                    \* position of the for loop over user_map
    notes,                  \* per-user notifications shown in this cycle
    stored,                 \* the token cache_token last wrote in full, if the
                            \* file still holds that write
    hist,                   \* what the run has done so far
    ev                      \* what the last step did

vars == <<now, env, pathOK, file, auth, pc, users, viewer_counts,
          current_viewer_counts, idx, notes, stored, hist, ev>>

NoMap == <<>>

\* The record of a step: op the operation, ok its result, the requests sent
\* to the identity endpoint (idReqs, fetched when one returned a token), the
\* calls of cache_token (stores, wrote when the file was touched), apiReq
\* when the API request was sent, the call of get_cached_token (loads,
\* loaded, preFile), shown when a notification was displayed, slept.
Event(op, ok) ==
    [op |-> op, ok |-> ok, idReqs |-> 0, fetched |-> FALSE, stores |-> 0,
     wrote |-> FALSE, apiReq |-> FALSE,
     loads |-> 0, loaded |-> [ok |-> TRUE, val |-> None], preFile |-> NoFile,
     shown |-> FALSE, slept |-> FALSE, msg |-> <<>>, preClient |-> 0]

\* One more of something counted as 0, 1 or 2 for "twice or more".
Counted(n) == IF n < 2 THEN n + 1 ELSE n

\* The history of a run: the calls of get_users and of get_streams_data, the
\* startup notifications shown, the snapshot built from the last successful
\* get_streams_data (last_counts) and, while a cycle runs, the one built
\* from the successful get_streams_data before it (prev_counts).
NoHistory ==
    [users_calls |-> 0, fetches |-> 0, start_notes |-> 0,
     last_counts |-> <<>>, prev_counts |-> <<>>]

\* The record of a step that ran get_token or ensure_token with result k.
\* stored after a step that ran get_token or ensure_token with result k and
\* ended with the token a.
StoredAfter(k, a, old) ==
    IF k.stores = 1 /\ k.ok THEN Some(a) ELSE IF k.wrote THEN None ELSE old

TokenEvent(op, ok, k, apiReq) ==
    [Event(op, ok) EXCEPT !.idReqs = k.idReqs, !.fetched = k.fetched,
                          !.stores = k.stores, !.wrote = k.wrote, !.apiReq = apiReq]

Init ==
    /\ now = 0
    /\ env \in Environments
    /\ pathOK \in BOOLEAN
    /\ file \in InitialFiles
    /\ auth = None
    /\ pc = "start"
    /\ users = <<>>
    /\ viewer_counts = NoMap
    /\ current_viewer_counts = NoMap
    /\ idx = 0
    /\ notes = <<>>
    /\ stored = None
    /\ hist = NoHistory
    /\ ev = Event("none", TRUE)

\* TwitchClient::new(), first statement of main.
New ==
    /\ pc = "start"
    /\ IF env.client_id = None \/ ~env.client_secret
       THEN /\ ev' = Event("new", FALSE)
            /\ pc' = Try(FALSE, "get_users")
            /\ UNCHANGED <<auth, file, stored>>
       ELSE \E resp \in TokenResponsesFor(env.client_id[1]), w \in WriteOutcomes :
               LET r == get_token(pathOK, file, env.client_id[1], now, resp, w) IN
               /\ auth' = r.auth
               /\ file' = r.file
               /\ stored' = IF r.ok THEN StoredAfter(r, r.auth[1], stored)
                             ELSE StoredAfter(r, r.auth, stored)
               /\ pc' = Try(r.ok, "get_users")
               /\ ev' = [TokenEvent("new", r.ok, r, FALSE) EXCEPT
                           !.loads = 1,
                           !.loaded = get_cached_token(pathOK, file, now),
                           !.preFile = file]
    /\ UNCHANGED <<now, env, pathOK, users, viewer_counts, current_viewer_counts,
                   idx, notes, hist>>

\* let users = twitch_client.get_users(..)?.data
GetUsers ==
    /\ pc = "get_users"
    /\ \E in \in TokenInputs(auth[1], env.client_id[1], now) :
       \E api \in Answers(ensure_token(auth[1], pathOK, file, env.client_id[1], now,
                                       in[1], in[2]), UsersResponses) :
          LET r == get_users(auth[1], pathOK, file, env.client_id[1], now,
                             in[1], in[2], api) IN
          /\ auth' = Some(r.token.auth)
          /\ file' = r.token.file
          /\ stored' = StoredAfter(r.token, r.token.auth, stored)
          /\ users' = r.data
          /\ pc' = Try(r.ok, "first_fetch")
          /\ ev' = [TokenEvent("get_users", r.ok, r.token, r.apiReq) EXCEPT
                      !.preClient = auth[1].client_id]
    /\ hist' = [hist EXCEPT !.users_calls = Counted(@)]
    /\ UNCHANGED <<now, env, pathOK, viewer_counts, current_viewer_counts, idx, notes>>

\* let stream_resp = twitch_client.get_streams_data(..)?  and the first
\* viewer_counts.
FirstFetch ==
    /\ pc = "first_fetch"
    /\ \E in \in TokenInputs(auth[1], env.client_id[1], now) :
       \E api \in Answers(ensure_token(auth[1], pathOK, file, env.client_id[1], now,
                                       in[1], in[2]), StreamsResponses) :
          LET r == get_streams_data(auth[1], pathOK, file, env.client_id[1], now,
                                    in[1], in[2], api) IN
          /\ auth' = Some(r.token.auth)
          /\ file' = r.token.file
          /\ stored' = StoredAfter(r.token, r.token.auth, stored)
          /\ viewer_counts' = IF r.ok THEN CountsOf(r.data) ELSE viewer_counts
          /\ pc' = Try(r.ok, "init_notify")
          /\ ev' = [TokenEvent("get_streams_data", r.ok, r.token, r.apiReq) EXCEPT
                      !.preClient = auth[1].client_id]
          /\ hist' = [hist EXCEPT
                         !.fetches = Counted(@),
                         !.last_counts = IF r.ok THEN CountsOf(r.data) ELSE @]
    /\ UNCHANGED <<now, env, pathOK, users, current_viewer_counts, idx, notes>>

\* A startup notification that main comes back to and shows again.
StartNotifyAgain ==
    /\ pc = "init_notify"
    /\ \E sinkOK \in BOOLEAN :
          /\ pc' = Try(sinkOK, "init_notify")
          /\ ev' = [Event("notify_start", sinkOK) EXCEPT
                       !.shown = sinkOK, !.msg = init_msg(users, viewer_counts)]
          /\ hist' = [hist EXCEPT !.start_notes = IF sinkOK THEN Counted(@) ELSE @]
    /\ UNCHANGED <<now, env, pathOK, file, auth, users, viewer_counts,
                   current_viewer_counts, idx, notes, stored>>

\* The "Start monitoring some streams !" notification.
StartNotify ==
    /\ pc = "init_notify"
    /\ \E sinkOK \in BOOLEAN :
          /\ pc' = Try(sinkOK, "loop_fetch")
          /\ ev' = [Event("notify_start", sinkOK) EXCEPT
                       !.shown = sinkOK, !.msg = init_msg(users, viewer_counts)]
          /\ hist' = [hist EXCEPT !.start_notes = IF sinkOK THEN Counted(@) ELSE @]
    /\ UNCHANGED <<now, env, pathOK, file, auth, users, viewer_counts,
                   current_viewer_counts, idx, notes, stored>>

\* Top of the loop: get_streams_data and current_viewer_counts.
LoopFetch ==
    /\ pc = "loop_fetch"
    /\ \E in \in TokenInputs(auth[1], env.client_id[1], now) :
       \E api \in Answers(ensure_token(auth[1], pathOK, file, env.client_id[1], now,
                                       in[1], in[2]), StreamsResponses) :
          LET r == get_streams_data(auth[1], pathOK, file, env.client_id[1], now,
                                    in[1], in[2], api) IN
          /\ auth' = Some(r.token.auth)
          /\ file' = r.token.file
          /\ stored' = StoredAfter(r.token, r.token.auth, stored)
          /\ current_viewer_counts' = IF r.ok THEN CountsOf(r.data) ELSE NoMap
          /\ pc' = Try(r.ok, "notify")
          /\ idx' = 1
          /\ ev' = [TokenEvent("get_streams_data", r.ok, r.token, r.apiReq) EXCEPT
                      !.preClient = auth[1].client_id]
          /\ hist' = [hist EXCEPT
                         !.fetches = Counted(@),
                         !.last_counts = IF r.ok THEN CountsOf(r.data) ELSE @,
                         !.prev_counts = IF r.ok THEN hist.last_counts ELSE @]
    /\ notes' = <<>>
    /\ UNCHANGED <<now, env, pathOK, users, viewer_counts>>

\* One turn of `for (user_id, user) in user_map.iter()`.
NotifyStep ==
    /\ pc = "notify"
    /\ idx <= Cardinality(DOMAIN UserMapOf(users))
    /\ LET user_map == UserMapOf(users)
           user_id == KeyAt(user_map, idx)
           user == user_map[user_id]
           prev_count == GetOr0(viewer_counts, user_id)
           current_count == GetOr0(current_viewer_counts, user_id)
       IN IF ShouldNotify(prev_count, current_count)
          THEN \E sinkOK \in BOOLEAN :
                  /\ notes' = IF sinkOK
                              THEN Append(notes, [user_id |-> user_id,
                                                  summary |-> user.display_name,
                                                  body |-> current_count])
                              ELSE notes
                  /\ pc' = Try(sinkOK, "notify")
                  /\ idx' = IF sinkOK THEN idx + 1 ELSE idx
                  /\ ev' = [Event("notify", sinkOK) EXCEPT !.shown = sinkOK]
          ELSE /\ idx' = idx + 1
               /\ ev' = Event("notify", TRUE)
               /\ UNCHANGED <<notes, pc>>
    /\ UNCHANGED <<now, env, pathOK, file, auth, users, viewer_counts,
                   current_viewer_counts, stored, hist>>

\* The end of a cycle that sleeps without replacing viewer_counts.
SleepKeep ==
    /\ pc = "notify"
    /\ idx > Cardinality(DOMAIN UserMapOf(users))
    /\ now + SleepSecs <= MaxTime
    /\ now' = now + SleepSecs
    /\ current_viewer_counts' = NoMap
    /\ idx' = 0
    /\ notes' = <<>>
    /\ pc' = "loop_fetch"
    /\ ev' = [Event("sleep", TRUE) EXCEPT !.slept = TRUE]
    /\ hist' = [hist EXCEPT !.prev_counts = <<>>]
    /\ UNCHANGED <<env, pathOK, file, auth, users, stored, viewer_counts>>

\* An end of cycle after which main returns.
SleepAndExit ==
    /\ pc = "notify"
    /\ idx > Cardinality(DOMAIN UserMapOf(users))
    /\ now + SleepSecs <= MaxTime
    /\ now' = now + SleepSecs
    /\ viewer_counts' = current_viewer_counts
    /\ current_viewer_counts' = NoMap
    /\ idx' = 0
    /\ notes' = <<>>
    /\ pc' = "done"
    /\ ev' = [Event("sleep", TRUE) EXCEPT !.slept = TRUE]
    /\ hist' = [hist EXCEPT !.prev_counts = <<>>]
    /\ UNCHANGED <<env, pathOK, file, auth, users, stored>>

\* After the for loop: viewer_counts = current_viewer_counts; sleep(d).
Sleep ==
    /\ pc = "notify"
    /\ idx > Cardinality(DOMAIN UserMapOf(users))
    /\ now + SleepSecs <= MaxTime
    /\ now' = now + SleepSecs
    /\ viewer_counts' = current_viewer_counts
    /\ current_viewer_counts' = NoMap
    /\ idx' = 0
    /\ notes' = <<>>
    /\ pc' = "loop_fetch"
    /\ ev' = [Event("sleep", TRUE) EXCEPT !.slept = TRUE]
    /\ hist' = [hist EXCEPT !.prev_counts = <<>>]
    /\ UNCHANGED <<env, pathOK, file, auth, users, stored>>

Next ==
    \/ New
    \/ GetUsers
    \/ FirstFetch
    \/ StartNotify
    \/ LoopFetch
    \/ NotifyStep
    \/ Sleep

Spec == Init /\ [][Next]_vars

\* ------------------------------------------------ the loop without an end
\* The loop of main never ends, and the clock of Spec stops at MaxTime. Only
\* the differences expires_at - now enter the comparisons of the program, so
\* from MaxTime on a sleep of d is taken as a move of every stored expiry
\* back by d with the clock kept. An expiry at or below now - MarginSecs is
\* kept there: ensure_token treats all such values alike, and now never
\* comes back to them.
Later(a, d, floor) ==
    [a EXCEPT !.expires_at = IF @ - d > floor THEN @ - d ELSE floor]

LaterOption(o, d, floor) == IF o = None THEN None ELSE Some(Later(o[1], d, floor))

LaterFile(f, d, floor) ==
    IF f.kind = "ok" /\ from_str(f.content) # None
    THEN FileOf(to_vec(Later(from_str(f.content)[1], d, floor)))
    ELSE f

\* viewer_counts = current_viewer_counts; sleep(d), from MaxTime on.
SleepOn ==
    /\ pc = "notify"
    /\ idx > Cardinality(DOMAIN UserMapOf(users))
    /\ now + SleepSecs > MaxTime
    /\ auth' = LaterOption(auth, SleepSecs, now - MarginSecs)
    /\ stored' = LaterOption(stored, SleepSecs, now - MarginSecs)
    /\ file' = LaterFile(file, SleepSecs, now - MarginSecs)
    /\ viewer_counts' = current_viewer_counts
    /\ current_viewer_counts' = NoMap
    /\ idx' = 0
    /\ notes' = <<>>
    /\ pc' = "loop_fetch"
    /\ ev' = [Event("sleep", TRUE) EXCEPT !.slept = TRUE]
    /\ hist' = [hist EXCEPT !.prev_counts = <<>>]
    /\ UNCHANGED <<now, env, pathOK, users>>

LiveNext ==
    \/ New
    \/ GetUsers
    \/ FirstFetch
    \/ StartNotify
    \/ LoopFetch
    \/ NotifyStep
    \/ Sleep
    \/ SleepOn

\* The process keeps running: a step that can be taken is taken.
LiveSpec == Init /\ [][LiveNext]_vars /\ WF_vars(LiveNext)

\* ------------------------------------------- the token cache on its own
\* cache_token and get_cached_token applied to tokens and at times drawn
\* from the bounded sets, as successive runs of the program apply them.
CacheStore ==
    /\ \E c \in ClientIds, e \in ExpiresIns, w \in WriteOutcomes :
          LET a == TwitchAuth(c, AccessTokenFor(c), now + e)
              s == cache_token(pathOK, file, a, w)
          IN /\ file' = s.file
             /\ stored' = IF s.ok THEN Some(a) ELSE IF s.wrote THEN None ELSE stored
             /\ ev' = [Event("cache_token", s.ok) EXCEPT !.stores = 1, !.wrote = s.wrote]
    /\ UNCHANGED <<now, env, pathOK, auth, pc, users, viewer_counts,
                   current_viewer_counts, idx, notes, hist>>

CacheLoad ==
    /\ LET r == get_cached_token(pathOK, file, now) IN
          ev' = [Event("get_cached_token", r.ok) EXCEPT
                    !.loads = 1, !.loaded = r, !.preFile = file]
    /\ UNCHANGED <<now, env, pathOK, file, auth, pc, users, viewer_counts,
                   current_viewer_counts, idx, notes, stored, hist>>

CachePass ==
    /\ now < MaxTime
    /\ now' = now + 1
    /\ ev' = Event("pass", TRUE)
    /\ UNCHANGED <<env, pathOK, file, auth, pc, users, viewer_counts,
                   current_viewer_counts, idx, notes, stored, hist>>

CacheNext ==
    \/ CacheStore
    \/ CacheLoad
    \/ CachePass

CacheSpec == Init /\ [][CacheNext]_vars

\* ----------------------------------------------------------------- claims
\* The positions of main at which the next step calls ensure_token.
AtApiCall == pc \in {"get_users", "first_fetch", "loop_fetch"}

\* C1: a call of ensure_token made while the token's remaining lifetime
\* exceeds the 5-second margin sends no request to the identity endpoint,
\* leaves the current token as it is and does not write the cache file.
C1_NoRefreshWhileFresh ==
    [][(AtApiCall /\ auth[1].expires_at - now > MarginSecs)
          => (ev'.idReqs = 0 /\ auth' = auth /\ ev'.stores = 0 /\ file' = file)]_vars

\* C2: a call of ensure_token made when now >= expires_at - margin sends
\* exactly one request to the identity endpoint, and when it succeeds the
\* returned token is the current token and the cache file holds it.
C2_RefreshOnceWhenDue ==
    [][(AtApiCall /\ now >= auth[1].expires_at - MarginSecs)
          => /\ ev'.idReqs = 1
             /\ ev'.apiReq => /\ ev'.fetched
                              /\ file'.kind = "ok"
                              /\ from_str(file'.content) = auth']_vars

\* C3: whenever get_users or get_streams_data sends its request, the
\* current token is not expired (now < expires_at).
C3_RequestsUseUsableToken ==
    ev.apiReq => now < auth[1].expires_at

\* The tracked users: the ids of the users main resolved.
Tracked == {users[i].id : i \in DOMAIN users}

\* The for loop over user_map has run to its end (no notification failed).
CycleDone == pc = "notify" /\ idx > Cardinality(Tracked)

\* C4: at the end of a cycle's notification loop the notifications shown
\* in the cycle are one for each tracked user whose count differs between
\* viewer_counts and current_viewer_counts (a missing key counting as 0) and
\* none for anyone else, each with that user's display name and new count.
C4_DiffLogic ==
    CycleDone =>
       /\ \A i \in DOMAIN notes : notes[i].user_id \in Tracked
       /\ \A u \in UserIds :
             LET prev == IF u \in DOMAIN viewer_counts THEN viewer_counts[u] ELSE 0
                 curr == IF u \in DOMAIN current_viewer_counts
                         THEN current_viewer_counts[u] ELSE 0
                 mine == {i \in DOMAIN notes : notes[i].user_id = u}
             IN /\ Cardinality(mine) = IF u \in Tracked /\ prev # curr THEN 1 ELSE 0
                /\ \A i \in mine :
                      /\ notes[i].body = curr
                      /\ \E j \in DOMAIN users :
                            users[j].id = u /\ notes[i].summary = users[j].display_name

\* A cycle in which one tracked user's stream ended (2 viewers, then no
\* record), another tracked user did not change, and a record came back for
\* a user that is not tracked.
C4_Witness ==
    /\ CycleDone
    /\ Len(notes) = 1
    /\ notes[1].body = 0
    /\ notes[1].user_id \in DOMAIN viewer_counts
    /\ viewer_counts[notes[1].user_id] = 2
    /\ notes[1].user_id \notin DOMAIN current_viewer_counts

\* C5: get_cached_token returns Ok (a token or None) whatever the state of
\* the cache location, the cache path that cannot be resolved included.
C5_LoadNeverFails ==
    ev.loads = 1 => ev.loaded.ok

\* C6: TwitchClient::new succeeds whenever get_cached_token yields a token,
\* or yields None and the identity endpoint returns a token; a failed write
\* of the cache does not make it fail.
C6_InitFailsOnlyOnAcquisition ==
    (ev.op = "new" /\ ev.loads = 1 /\ ev.loaded.ok /\ (ev.loaded.val # None \/ ev.fetched))
       => (ev.ok /\ auth # None /\ pc = "get_users")

\* The tokens a cache file may hold when the program starts.
CachedTokens ==
    {TwitchAuth(c, tok, e) : c \in ClientIds, tok \in AccessTokens, e \in CachedExpiries}

\* C7: when the cache file holds a well-formed token that expires strictly
\* after the start, new() adopts it, sends nothing to the identity endpoint
\* and leaves the file alone; new() asks the identity endpoint exactly when
\* get_cached_token returned None, and calls cache_token exactly when the
\* endpoint returned a token.
C7_TokenReuse ==
    (ev.op = "new" /\ ev.loads = 1) =>
       /\ \A a \in CachedTokens :
             (pathOK /\ ev.preFile = FileOf(to_vec(a)) /\ a.expires_at > now)
                => /\ auth = Some(a)
                   /\ ev.ok
                   /\ ev.idReqs = 0
                   /\ ev.stores = 0
                   /\ file = ev.preFile
       /\ ev.idReqs = (IF ev.loaded.ok /\ ev.loaded.val = None THEN 1 ELSE 0)
       /\ ev.stores = (IF ev.fetched THEN 1 ELSE 0)
       /\ ev.fetched => ev.idReqs = 1

\* new() has adopted the token of the cache file.
C7_Witness ==
    /\ ev.op = "new"
    /\ pc = "get_users"
    /\ ev.loaded.val # None
    /\ auth = ev.loaded.val
    /\ ev.preFile = FileOf(to_vec(auth[1]))
    /\ auth[1].expires_at > now

\* The well-formed tokens a cache file may hold at any time of a run.
AnyTokens ==
    {TwitchAuth(c, tok, e) : c \in ClientIds, tok \in AccessTokens,
                             e \in (0 - MaxPast)..(MaxTime + MaxExpiresIn)}

\* C8: get_cached_token returns None for every well-formed cached token
\* with expires_at <= now, equality included.
C8_LoadRejectsExpired ==
    (ev.loads = 1 /\ pathOK) =>
       \A a \in AnyTokens :
          (ev.preFile = FileOf(to_vec(a)) /\ a.expires_at <= now)
             => ev.loaded = [ok |-> TRUE, val |-> None]

\* get_cached_token has read, some time after it was stored, a token that
\* expires at this very second.
C8_Witness ==
    /\ ev.op = "get_cached_token"
    /\ pathOK
    /\ stored # None
    /\ ev.preFile = FileOf(to_vec(stored[1]))
    /\ stored[1].expires_at = now
    /\ ev.loaded = [ok |-> TRUE, val |-> None]

\* C9: after a successful cache_token(t), a get_cached_token at a time
\* now < t.expires_at, with no write in between, returns t, equal in
\* client_id, access_token and expires_at.
C9_StoreLoadRoundTrip ==
    (ev.op = "get_cached_token" /\ stored # None /\ now < stored[1].expires_at)
       => /\ ev.loaded.ok
          /\ ev.loaded.val # None
          /\ ev.loaded.val[1].client_id = stored[1].client_id
          /\ ev.loaded.val[1].access_token = stored[1].access_token
          /\ ev.loaded.val[1].expires_at = stored[1].expires_at

\* A token was stored, time has passed, and the load returned it.
C9_Witness ==
    /\ ev.op = "get_cached_token"
    /\ stored # None
    /\ now > 0
    /\ now < stored[1].expires_at
    /\ ev.loaded.val = stored

\* C10: a failed get_users or get_streams_data ends the process, and once
\* the process has ended with an error nothing happens any more: no API
\* request, no request for a token, no sleep, no notification.
C10_FailStop ==
    [][/\ (ev'.op \in {"get_users", "get_streams_data"} /\ ~ev'.ok) => pc' = "error"
       /\ pc = "error" => UNCHANGED vars]_vars

\* A steady-state get_streams_data failed after its request was sent.
C10_Witness ==
    /\ pc = "error"
    /\ ev.op = "get_streams_data"
    /\ ev.apiReq
    /\ ~ev.ok
    /\ now > 0

\* C11: every get_streams_data of the loop is preceded by a completed sleep
\* that began after the get_streams_data before it, the first one of the
\* loop (which follows the startup fetch) included.
C11_SleepBeforeEveryPoll ==
    [][(pc = "loop_fetch" /\ ev'.op = "get_streams_data") => ev.slept]_vars

\* C12: get_users is called once, before any get_streams_data; the first
\* get_streams_data is over before the startup notification; the startup
\* notification is shown once, before any per-user notification.
C12_StartupOrder ==
    /\ hist.users_calls <= 1
    /\ hist.start_notes <= 1
    /\ hist.fetches >= 1 => hist.users_calls = 1
    /\ pc \in {"first_fetch", "init_notify", "loop_fetch", "notify"} => hist.users_calls = 1
    /\ ev.op = "notify_start" => (hist.fetches = 1 /\ viewer_counts = hist.last_counts)
    /\ hist.start_notes = 1 => hist.fetches >= 1
    /\ pc \in {"loop_fetch", "notify"} => hist.start_notes = 1
    /\ (Len(notes) > 0 \/ (ev.op = "notify" /\ ev.shown)) => hist.start_notes = 1
    /\ hist.fetches = 2 => hist.start_notes = 1

\* A per-user notification has been shown in the steady state.
C12_Witness ==
    /\ pc = "notify"
    /\ ev.op = "notify"
    /\ ev.shown
    /\ Len(notes) = 1
    /\ hist.users_calls = 1
    /\ hist.fetches = 2
    /\ hist.start_notes = 1

\* C13: when the cache file holds content that does not deserialize to a
\* token, get_cached_token returns None, new() asks the identity endpoint
\* once, and when new() succeeds the file holds the serialized fresh token
\* in place of the corrupt content.
C13_CorruptCacheRecovery ==
    (/\ ev.op = "new"
     /\ ev.loads = 1
     /\ pathOK
     /\ ev.preFile.kind = "ok"
     /\ ev.preFile.content \notin {to_vec(a) : a \in AnyTokens})
       => /\ ev.loaded = [ok |-> TRUE, val |-> None]
          /\ ev.idReqs = 1
          /\ ev.ok => /\ ev.fetched
                      /\ auth # None
                      /\ auth[1].client_id = env.client_id[1]
                      /\ auth[1].expires_at \in {now + e : e \in ExpiresIns}
                      /\ file = FileOf(to_vec(auth[1]))
                      /\ file # ev.preFile

\* new() has succeeded on a cache file that held half a token.
C13_Witness ==
    /\ ev.op = "new"
    /\ ev.ok
    /\ pc = "get_users"
    /\ ev.preFile.kind = "ok"
    /\ Len(ev.preFile.content) = 2
    /\ Len(file.content) = 3
    /\ stored = auth

\* The phrase of the startup notification for a viewer count.
ViewerPhrase(n) ==
    IF n = 0 THEN "no viewer" ELSE IF n = 1 THEN "1 viewer" ELSE ToString(n) \o " viewer"

C15_SnapshotHandOver ==
    /\ pc = "loop_fetch" => viewer_counts = hist.last_counts
    /\ pc = "notify" => /\ viewer_counts = hist.prev_counts
                        /\ current_viewer_counts = hist.last_counts
    /\ CycleDone =>
          \A u \in Tracked :
             LET before == IF u \in DOMAIN hist.prev_counts THEN hist.prev_counts[u] ELSE 0
                 after == IF u \in DOMAIN hist.last_counts THEN hist.last_counts[u] ELSE 0
             IN (\E i \in DOMAIN notes : notes[i].user_id = u) <=> before # after

\* The second cycle has ended: one user was notified, another kept the
\* count of the poll before and was not.
C15_Witness ==
    /\ CycleDone
    /\ now >= SleepSecs
    /\ hist.fetches = 2
    /\ Len(notes) = 1
    /\ \E u \in Tracked :
          /\ u \in DOMAIN hist.prev_counts
          /\ u \in DOMAIN hist.last_counts
          /\ hist.prev_counts[u] # hist.last_counts[u]

\* C16: when a notification cannot be shown (the startup one, or the one
\* for a user in a cycle) the process ends: that step shows nothing, the
\* notifications of the cycle stay as they were, viewer_counts is not
\* replaced, no fetch is counted, and nothing happens after an error.
C16_SinkFailStop ==
    [][/\ pc # "error"
       /\ (ev'.op \in {"notify", "notify_start"} /\ ~ev'.ok)
             => /\ pc' = "error"
                /\ ~ev'.shown
                /\ notes' = notes
                /\ viewer_counts' = viewer_counts
                /\ hist'.fetches = hist.fetches
                /\ hist'.last_counts = hist.last_counts]_vars

\* The notification of the second user of a cycle failed after the first
\* user's was shown, and the process has ended.
C16_Witness ==
    /\ pc = "error"
    /\ ev.op = "notify"
    /\ ~ev.ok
    /\ idx = 2
    /\ Len(notes) = 1
    /\ Cardinality(Tracked) = 2

\* C17: the notifications of a cycle are shown in ascending order of user
\* id, and a user is notified only once the loop has passed every smaller
\* id, whatever the order of the users in the response of get_users.
C17_AscendingOrder ==
    /\ \A i, j \in DOMAIN notes : i < j => notes[i].user_id < notes[j].user_id
    /\ pc = "notify" =>
          \A i \in DOMAIN notes :
             Cardinality({u \in Tracked : u <= notes[i].user_id}) < idx

\* Two notifications in a cycle for users that get_users returned in
\* descending order of id.
C17_Witness ==
    /\ pc = "notify"
    /\ Len(users) = 2
    /\ users[1].id > users[2].id
    /\ Len(notes) = 2
    /\ notes[1].user_id = users[2].id

\* C19: whenever get_users or get_streams_data has sent its request, the
\* cache file holds the serialized form of self.auth, the token the request
\* carried.
C19_CacheCoherence ==
    ev.apiReq => /\ auth # None
                 /\ file = FileOf(to_vec(auth[1]))
                 /\ stored = auth

\* After a sleep, a request was sent in a call in which ensure_token fetched
\* and stored a token.
C19_Witness ==
    /\ ev.apiReq
    /\ ev.op = "get_streams_data"
    /\ ev.fetched
    /\ ev.stores = 1
    /\ now >= SleepSecs
    /\ file = FileOf(to_vec(auth[1]))

\* C20: every request of get_users and get_streams_data carries the client
\* id of the environment and a token issued for that client id, also after
\* new() took over a cached token written for another client id.
C20_ClientIdentity ==
    ev.apiReq => /\ auth # None
                 /\ auth[1].client_id = env.client_id[1]
                 /\ auth[1].access_token = AccessTokenFor(env.client_id[1])

\* get_users sent its request after new() had taken a token of another
\* client id from the cache.
C20_Witness ==
    /\ ev.op = "get_users"
    /\ ev.apiReq
    /\ ev.preClient # 0
    /\ ev.preClient # env.client_id[1]
    /\ auth[1].client_id = env.client_id[1]

\* C18: the process has no end other than an error: as long as nothing has
\* failed a step can be taken, and in every run in which nothing ever fails
\* get_streams_data and the sleep after it happen again and again.
C18_PollingNeverStops ==
    /\ [](pc # "error" => ENABLED LiveNext)
    /\ [](pc # "error") => /\ []<>(ev.op = "get_streams_data" /\ pc = "notify")
                           /\ []<>(ev.op = "sleep" /\ pc = "loop_fetch")

\* A get_streams_data that came after the sleep that followed an earlier
\* get_streams_data of the loop.
C18_Witness ==
    /\ ev.op = "get_streams_data"
    /\ ev.ok
    /\ pc = "notify"
    /\ now >= SleepSecs
    /\ hist.fetches = 2
    /\ hist.start_notes = 1

====
